---------------------------- MODULE Spec2Model ----------------------------
(* A model of trash_unlabeled_archived.py: main() lists the message IDs    *)
(* matching a query, page by page (list_message_ids), then moves them to   *)
(* trash one call per message with a bounded retry (batch_trash).          *)
(* The provider is the environment: it holds the result pages and decides  *)
(* the outcome of every call.                                              *)
EXTENDS Integers, Sequences, FiniteSets

(***************************************************************************)
(* Bounds of the model and sets the inputs are drawn from.                 *)
(***************************************************************************)
MaxPages == 2
MaxTotal == 2

MsgIds == {"a", "b"}

\* Statuses an HttpError of the provider may carry.
HttpStatuses == {403, 404, 429, 500, 503}

\* Optional[...] values: None, or a one-element tuple holding the value.
None == <<>>
Some(v) == <<v>>

Min(a, b) == IF a < b THEN a ELSE b
Max(a, b) == IF a > b THEN a ELSE b

\* The sequences over S of length at most n.
SeqsUpTo(S, n) == UNION {[1..m -> S] : m \in 0..n}

RECURSIVE Flatten(_)
Flatten(ps) == IF ps = <<>> THEN <<>> ELSE Head(ps) \o Flatten(Tail(ps))

\* The result pages the provider may hold for the query: at least one
\* response, any of them possibly empty, the same ID possibly listed twice.
ServerPages ==
    {ps \in UNION {[1..n -> SeqsUpTo(MsgIds, MaxTotal)] : n \in 1..MaxPages} :
        Len(Flatten(ps)) <= MaxTotal}

(***************************************************************************)
(* Program constants and pure helpers.                                     *)
(***************************************************************************)
\* Mutant of MaxAttempts: one attempt more, range(6).
MaxAttempts_six == 5 + 1

\* range(5): the attempts made for one message.
MaxAttempts == 5

\* Mutant of RetryStatuses: 403 is retried too.
RetryStatuses_with403 == {403, 429, 500, 503}

\* status in (429, 500, 503)
RetryStatuses == {429, 500, 503}

\* s[:stop] of Python, stop possibly negative.
PySliceTo(s, stop) ==
    IF stop >= 0 THEN SubSeq(s, 1, Min(stop, Len(s)))
    ELSE SubSeq(s, 1, Max(Len(s) + stop, 0))

\* s[start:stop] of Python for 0 <= start <= stop.
PySlice(s, start, stop) == SubSeq(s, start + 1, Min(stop, Len(s)))

\* Mutant of Extend: the page replaces the list instead of extending it.
Extend_replace(l, msgs) == msgs

\* ids.extend([m["id"] for m in msgs])
Extend(l, msgs) == l \o msgs

\* Whether range(0, stop, step) still yields the value v (step # 0).
InRange(v, stop, step) == IF step > 0 THEN v < stop ELSE v > stop

VARIABLES
    pages,          \* provider: the result pages of the query
    max_messages,   \* args.max: None or Some(N)
    dry_run,        \* args.dry_run
    batch_size,     \* args.batch_size
    pc,             \* where main() stands
    ids,            \* list_message_ids.ids, then main.ids
    page_token,     \* list_message_ids.page_token
    i,              \* batch_trash: start of the current chunk (0-based)
    chunk,          \* batch_trash: the current chunk
    k,              \* batch_trash: index in chunk of the next mid (1-based)
    attempt,        \* batch_trash: the attempt about to be made
    trashed,        \* batch_trash: the counter
    result,         \* what batch_trash returned: None or Some(count)
    log             \* history: every provider call made, in order

vars == <<pages, max_messages, dry_run, batch_size, pc, ids, page_token,
          i, chunk, k, attempt, trashed, result, log>>

args == <<pages, max_messages, dry_run, batch_size>>

\* The provider's answer to messages.list with the given page token: the
\* token of page n+1 is n+1, the last page carries none.
ServerList(token) ==
    LET n == IF token = None THEN 1 ELSE token[1]
    IN  [messages |-> pages[n],
         nextPageToken |-> IF n < Len(pages) THEN Some(n + 1) ELSE None]

\* How an HttpError is recorded in the history.
Outcome(status) == IF status \in {429, 500, 503} THEN "transient" ELSE "other"

ListEvent(token, res) ==
    [op |-> "list", token |-> token, pos |-> 0, id |-> "", res |-> res]

TrashEvent(pos, mid, res) ==
    [op |-> "trash", token |-> None, pos |-> pos, id |-> mid, res |-> res]

Init ==
    /\ pages \in ServerPages
    /\ max_messages \in {None} \cup {Some(n) : n \in (0 - 1)..MaxTotal}
    /\ dry_run \in BOOLEAN
    /\ batch_size \in (0 - 1)..MaxTotal
    /\ pc = "list"
    /\ ids = <<>>
    /\ page_token = None
    /\ i = 0
    /\ chunk = <<>>
    /\ k = 1
    /\ attempt = 0
    /\ trashed = 0
    /\ result = None
    /\ log = <<>>

(***************************************************************************)
(* list_message_ids                                                        *)
(***************************************************************************)
\* One iteration of the while loop whose list call succeeds.
ListOk ==
    /\ pc = "list"
    /\ LET res == ServerList(page_token)
           all == Extend(ids, res.messages)
       IN  /\ log' = Append(log, ListEvent(page_token, "ok"))
           /\ IF max_messages # None /\ Len(all) >= max_messages[1]
              THEN /\ ids' = PySliceTo(all, max_messages[1])
                   /\ page_token' = page_token
                   /\ pc' = "main"
              ELSE /\ ids' = all
                   /\ page_token' = res.nextPageToken
                   /\ pc' = IF res.nextPageToken = None THEN "main" ELSE "list"
    /\ UNCHANGED <<args, i, chunk, k, attempt, trashed, result>>

\* Mutant of ListError: a transient status is retried, the call is made again.
ListError_retry ==
    /\ pc = "list"
    /\ \E status \in HttpStatuses :
          /\ log' = Append(log, ListEvent(page_token, Outcome(status)))
          /\ pc' = IF status \in {429, 500, 503} /\ Len(log) < MaxPages + 2
                   THEN "list" ELSE "error"
    /\ UNCHANGED <<args, ids, page_token, i, chunk, k, attempt, trashed, result>>

\* The list call raises: nothing catches it, main() ends with the error.
ListError ==
    /\ pc = "list"
    /\ \E status \in HttpStatuses :
          log' = Append(log, ListEvent(page_token, Outcome(status)))
    /\ pc' = "error"
    /\ UNCHANGED <<args, ids, page_token, i, chunk, k, attempt, trashed, result>>

(***************************************************************************)
(* main, after the listing                                                 *)
(***************************************************************************)
\* if len(ids) == 0: return
MainEmpty ==
    /\ pc = "main"
    /\ Len(ids) = 0
    /\ pc' = "done"
    /\ UNCHANGED <<args, ids, page_token, i, chunk, k, attempt, trashed,
                   result, log>>

\* The call of batch_trash: trashed = 0 and the outer range is built;
\* range() with a step of zero raises ValueError.
EnterBatchTrash ==
    /\ pc = "main"
    /\ Len(ids) > 0
    /\ trashed' = 0
    /\ i' = 0
    /\ pc' = IF batch_size = 0 THEN "error" ELSE "chunk"
    /\ UNCHANGED <<args, ids, page_token, chunk, k, attempt, result, log>>

(***************************************************************************)
(* batch_trash                                                             *)
(***************************************************************************)
\* The outer loop takes its next chunk.
ChunkBegin ==
    /\ pc = "chunk"
    /\ InRange(i, Len(ids), batch_size)
    /\ chunk' = PySlice(ids, i, i + batch_size)
    /\ k' = 1
    /\ pc' = "mid"
    /\ UNCHANGED <<args, ids, page_token, i, attempt, trashed, result, log>>

\* The outer loop is exhausted: return trashed, and main() prints it.
Return ==
    /\ pc = "chunk"
    /\ ~InRange(i, Len(ids), batch_size)
    /\ result' = Some(trashed)
    /\ pc' = "done"
    /\ UNCHANGED <<args, ids, page_token, i, chunk, k, attempt, trashed, log>>

\* if dry_run: trashed += 1; continue
DryRunStep ==
    /\ pc = "mid"
    /\ k <= Len(chunk)
    /\ dry_run
    /\ trashed' = trashed + 1
    /\ k' = k + 1
    /\ UNCHANGED <<args, pc, ids, page_token, i, chunk, attempt, result, log>>

\* The retry loop of one message starts.
BeginRetry ==
    /\ pc = "mid"
    /\ k <= Len(chunk)
    /\ ~dry_run
    /\ attempt' = 0
    /\ pc' = "attempt"
    /\ UNCHANGED <<args, ids, page_token, i, chunk, k, trashed, result, log>>

\* Mutant of TrashOk: the success is not counted.
TrashOk_notCounted ==
    /\ pc = "attempt"
    /\ log' = Append(log, TrashEvent(i + k, chunk[k], "ok"))
    /\ k' = k + 1
    /\ pc' = "mid"
    /\ UNCHANGED <<args, ids, page_token, i, chunk, attempt, trashed, result>>

\* The trash call succeeds: trashed += 1; break; sleep; next mid.
TrashOk ==
    /\ pc = "attempt"
    /\ log' = Append(log, TrashEvent(i + k, chunk[k], "ok"))
    /\ trashed' = trashed + 1
    /\ k' = k + 1
    /\ pc' = "mid"
    /\ UNCHANGED <<args, ids, page_token, i, chunk, attempt, result>>

\* Mutant of TrashTransientError: the last failed attempt raises.
TrashTransientError_raiseAtEnd ==
    /\ pc = "attempt"
    /\ \E status \in HttpStatuses :
          /\ status \in {429, 500, 503}
          /\ log' = Append(log, TrashEvent(i + k, chunk[k], Outcome(status)))
    /\ IF attempt + 1 < 5
       THEN /\ attempt' = attempt + 1
            /\ UNCHANGED pc
       ELSE /\ pc' = "error"
            /\ UNCHANGED attempt
    /\ UNCHANGED <<args, ids, page_token, i, chunk, k, trashed, result>>

\* HttpError with a status in (429, 500, 503): sleep the backoff and
\* continue; when range(5) is exhausted the loop ends without a raise.
TrashTransientError ==
    /\ pc = "attempt"
    /\ \E status \in HttpStatuses :
          /\ status \in RetryStatuses
          /\ log' = Append(log, TrashEvent(i + k, chunk[k], Outcome(status)))
    /\ IF attempt + 1 < MaxAttempts
       THEN /\ attempt' = attempt + 1
            /\ UNCHANGED <<pc, k>>
       ELSE /\ k' = k + 1
            /\ pc' = "mid"
            /\ UNCHANGED attempt
    /\ UNCHANGED <<args, ids, page_token, i, chunk, trashed, result>>

\* HttpError with any other status: raise.
TrashOtherError ==
    /\ pc = "attempt"
    /\ \E status \in HttpStatuses :
          /\ status \notin RetryStatuses
          /\ log' = Append(log, TrashEvent(i + k, chunk[k], Outcome(status)))
    /\ pc' = "error"
    /\ UNCHANGED <<args, ids, page_token, i, chunk, k, attempt, trashed, result>>

\* The chunk is exhausted: print the progress line, next value of the range.
ChunkEnd ==
    /\ pc = "mid"
    /\ k > Len(chunk)
    /\ i' = i + batch_size
    /\ pc' = "chunk"
    /\ UNCHANGED <<args, ids, page_token, chunk, k, attempt, trashed, result, log>>

Next ==
    \/ ListOk
    \/ ListError
    \/ MainEmpty
    \/ EnterBatchTrash
    \/ ChunkBegin
    \/ Return
    \/ DryRunStep
    \/ BeginRetry
    \/ TrashOk
    \/ TrashTransientError
    \/ TrashOtherError
    \/ ChunkEnd

Spec == Init /\ [][Next]_vars

(***************************************************************************)
(* What the history shows.                                                 *)
(***************************************************************************)
IsTrash(e) == e.op = "trash"
IsList(e) == e.op = "list"

\* The trash calls and the list calls made so far, in order.
TrashCalls == SelectSeq(log, IsTrash)
ListCalls == SelectSeq(log, IsList)

\* The trash calls made for the list position p that ended with res.
CallsAt(p, res) ==
    {n \in 1..Len(log) : IsTrash(log[n]) /\ log[n].pos = p /\ log[n].res = res}

\* The trash calls that succeeded.
NumOk == Cardinality({n \in 1..Len(log) : IsTrash(log[n]) /\ log[n].res = "ok"})

\* list_message_ids has returned its list to main().
ListingReturned ==
    /\ pc # "list"
    /\ \A n \in 1..Len(log) : IsList(log[n]) => log[n].res = "ok"

\* All attempts for the list position p failed with a transient status.
Exhausted(p) == Cardinality(CallsAt(p, "transient")) >= 5

\* The run of batch_trash over the list l as one chunk, replayed on the
\* outcomes outs of the trash calls: the positions called, how the run
\* stands after them, and the counter.
RECURSIVE FlatRun(_, _, _, _, _)
FlatRun(l, outs, pos, att, cnt) ==
    IF pos > Len(l)
    THEN [trace |-> <<>>, status |-> "returned", trashed |-> cnt]
    ELSE IF outs = <<>>
    THEN [trace |-> <<>>, status |-> "running", trashed |-> cnt]
    ELSE IF Head(outs) = "other"
    THEN [trace |-> <<pos>>, status |-> "raised", trashed |-> cnt]
    ELSE LET rest ==
                 IF Head(outs) = "ok"
                 THEN FlatRun(l, Tail(outs), pos + 1, 0, cnt + 1)
                 ELSE IF att + 1 < 5
                 THEN FlatRun(l, Tail(outs), pos, att + 1, cnt)
                 ELSE FlatRun(l, Tail(outs), pos + 1, 0, cnt)
         IN  [rest EXCEPT !.trace = <<pos>> \o rest.trace]

\* The run every value of batch_size is to give, on the outcomes seen.
Reference ==
    IF dry_run
    THEN [trace |-> <<>>, status |-> "returned", trashed |-> Len(ids)]
    ELSE FlatRun(ids, [n \in 1..Len(TrashCalls) |-> TrashCalls[n].res], 1, 0, 0)

\* The trash calls are those of the reference run and the run ends as it does.
SameAsReference ==
    LET f == Reference
    IN  /\ [n \in 1..Len(TrashCalls) |-> TrashCalls[n].pos] = f.trace
        /\ \A n \in 1..Len(TrashCalls) : TrashCalls[n].id = ids[TrashCalls[n].pos]
        /\ pc = "done" => f.status = "returned" /\ result = Some(f.trashed)
        /\ pc = "error" <=> f.status = "raised"

(***************************************************************************)
(* The claims.                                                             *)
(***************************************************************************)

\* C1: in a dry run no trash call is made, and batch_trash returns the
\* number of matched message IDs.
C1_DryRunCountsAllNoCall ==
    dry_run =>
        /\ TrashCalls = <<>>
        /\ ListingReturned /\ ids # <<>> /\ pc \in {"done", "error"}
              => result = Some(Len(ids))

\* C1 where batch_size is at least 1 (see C7).
C1_DryRunPositiveBatch ==
    batch_size >= 1 => C1_DryRunCountsAllNoCall

C1_Witness ==
    /\ dry_run
    /\ batch_size = 1
    /\ pc = "done"
    /\ Len(ids) = 2
    /\ result = Some(2)

\* C2: with --max N the list returned has exactly N IDs when at least N
\* match and all of them when fewer match: the first min(N, total) IDs in
\* page order.
C2_MaxCapsToFirstN ==
    max_messages # None /\ ListingReturned =>
        LET N == max_messages[1]
            all == Flatten(pages)
        IN  IF Len(all) >= N
            THEN Len(ids) = N /\ \A n \in 1..Len(ids) : ids[n] = all[n]
            ELSE ids = all

\* C2 where N is not negative.
C2_NonNegativeMax ==
    max_messages # None /\ max_messages[1] >= 0 => C2_MaxCapsToFirstN

C2_Witness ==
    /\ max_messages = Some(1)
    /\ ListingReturned
    /\ Len(Flatten(pages)) = 2
    /\ ids = <<Flatten(pages)[1]>>

\* C3: without --max every request carries the token the previous response
\* returned, the listing ends at the first response without a token, and
\* the list returned is the concatenation of the pages received, in order.
C3_PaginationConcatenatesAll ==
    max_messages = None =>
        /\ \A n \in 1..Len(ListCalls) :
              ListCalls[n].token =
                  IF n = 1 THEN None
                  ELSE ServerList(ListCalls[n - 1].token).nextPageToken
        /\ \A n \in 1..(Len(ListCalls) - 1) :
              /\ ListCalls[n].res = "ok"
              /\ ServerList(ListCalls[n].token).nextPageToken # None
        /\ ListingReturned =>
              /\ ServerList(ListCalls[Len(ListCalls)].token).nextPageToken = None
              /\ ids = Flatten([n \in 1..Len(ListCalls) |->
                                   ServerList(ListCalls[n].token).messages])
              /\ ids = Flatten(pages)

C3_Witness ==
    /\ max_messages = None
    /\ ListingReturned
    /\ Len(ListCalls) = 2
    /\ Len(pages[1]) = 1
    /\ Len(pages[2]) = 1
    /\ pages[1] # pages[2]

\* C4: a trash call that fails with 429, 500 or 503 is followed by another
\* call for the same message while fewer than 5 attempts were made for it,
\* and no message gets more than 5 attempts.
C4_TransientRetriedUpTo5 ==
    /\ \A p \in 1..Len(ids) :
          Cardinality({n \in 1..Len(log) : IsTrash(log[n]) /\ log[n].pos = p}) <= 5
    /\ \A n \in 1..Len(log) :
          (IsTrash(log[n]) /\ log[n].res = "transient"
             /\ Cardinality({m \in 1..n : IsTrash(log[m]) /\ log[m].pos = log[n].pos}) < 5)
          => IF n < Len(log)
             THEN /\ IsTrash(log[n + 1])
                  /\ log[n + 1].pos = log[n].pos
                  /\ log[n + 1].id = log[n].id
             ELSE /\ pc = "attempt"
                  /\ i + k = log[n].pos
                  /\ chunk[k] = log[n].id

C4_Witness ==
    /\ Len(TrashCalls) = 5
    /\ \A n \in 1..4 : TrashCalls[n].res = "transient" /\ TrashCalls[n].pos = 1
    /\ TrashCalls[5].res = "ok"
    /\ TrashCalls[5].pos = 1

\* C5: a trash call that fails with a status other than 429, 500 and 503
\* is the last call of the run: the error ends the run, whatever the
\* attempt, and batch_trash returns no count.
C5_OtherErrorAborts ==
    \A n \in 1..Len(log) :
        IsTrash(log[n]) /\ log[n].res = "other" =>
            /\ n = Len(log)
            /\ pc = "error"
            /\ result = None

C5_Witness ==
    /\ Len(ids) = 2
    /\ Len(TrashCalls) = 3
    /\ TrashCalls[1].res = "transient"
    /\ TrashCalls[2].res = "transient"
    /\ TrashCalls[3].res = "other"
    /\ TrashCalls[3].pos = 1
    /\ pc = "error"

\* C6: for every message ID at most one trash call succeeds, and no trash
\* call is made for an ID after one for it has succeeded.
C6_EachIdAtMostOnce ==
    \A n \in 1..Len(log) :
        IsTrash(log[n]) /\ log[n].res = "ok" =>
            \A m \in (n + 1)..Len(log) : IsTrash(log[m]) => log[m].id # log[n].id

\* C6 for the positions of the list instead of the IDs.
C6_EachPositionAtMostOnce ==
    \A n \in 1..Len(log) :
        IsTrash(log[n]) /\ log[n].res = "ok" =>
            \A m \in (n + 1)..Len(log) : IsTrash(log[m]) => log[m].pos > log[n].pos

\* C7: the trash calls made and the count returned do not depend on
\* batch_size: they are those of the run over the list as one chunk.
C7_BatchSizeIrrelevant ==
    ListingReturned /\ ids # <<>> /\ pc # "main" => SameAsReference

\* C7 where batch_size is at least 1.
C7_PositiveBatchSize ==
    batch_size >= 1 => C7_BatchSizeIrrelevant

\* C8: every list call comes before the first trash call, and a list call
\* that raises, with whatever status, is the last call of the run: it is
\* not repeated and the run ends without a trash call.
C8_ListThenTrash ==
    /\ \A n \in 1..Len(log) :
          IsTrash(log[n]) => \A m \in (n + 1)..Len(log) : IsTrash(log[m])
    /\ \A n \in 1..Len(log) :
          IsList(log[n]) /\ log[n].res # "ok" =>
              /\ n = Len(log)
              /\ pc = "error"
              /\ TrashCalls = <<>>
    /\ TrashCalls # <<>> => pc # "list"

C8_Witness ==
    /\ Len(log) = 2
    /\ log[1].op = "list"
    /\ log[1].res = "ok"
    /\ log[2].op = "list"
    /\ log[2].res = "transient"
    /\ pc = "error"

\* C9: when all 5 attempts for a message fail with a transient status no
\* error is raised: the message is not counted, the next call is for the
\* next message of the list, and the run can return a count below the
\* number of matched IDs.
C9_ExhaustedRetriesSkipMessage ==
    \A p \in 1..Len(ids) :
        Exhausted(p) =>
            LET last == CHOOSE n \in CallsAt(p, "transient") :
                            \A m \in CallsAt(p, "transient") : m <= n
            IN  /\ CallsAt(p, "ok") = {}
                /\ CallsAt(p, "other") = {}
                /\ Cardinality(CallsAt(p, "transient")) = 5
                /\ trashed = NumOk
                /\ IF last < Len(log)
                   THEN log[last + 1].pos = p + 1
                   ELSE /\ pc \in {"mid", "attempt", "chunk", "done"}
                        /\ pc \in {"mid", "attempt"} => i + k = p + 1
                        /\ pc = "chunk" => Min(i, Len(ids)) = p
                        /\ pc = "done" => p = Len(ids)
                /\ pc = "done" =>
                      /\ result = Some(NumOk)
                      /\ NumOk < Len(ids)
                      /\ \A q \in (p + 1)..Len(ids) :
                            \E n \in 1..Len(log) : IsTrash(log[n]) /\ log[n].pos = q

C9_Witness ==
    /\ Len(ids) = 2
    /\ Exhausted(1)
    /\ CallsAt(2, "ok") # {}
    /\ pc = "done"
    /\ result = Some(1)

\* C10: in a run that is not a dry run the counter is, at every point, the
\* number of trash calls that succeeded so far, and the count returned is
\* that number and is at most the number of matched IDs.
C10_CounterIsSuccessCount ==
    ~dry_run =>
        /\ trashed = NumOk
        /\ pc = "done" /\ ids # <<>> =>
              /\ result = Some(NumOk)
              /\ NumOk <= Len(ids)

\* The messages a successful trash call has moved to trash.
MovedToTrash ==
    {log[n].id : n \in {m \in 1..Len(log) : IsTrash(log[m]) /\ log[m].res = "ok"}}

\* C10 in full: moreover the count returned is the number of messages
\* moved to trash.
C10_CountIsMessagesTrashed ==
    /\ C10_CounterIsSuccessCount
    /\ ~dry_run /\ pc = "done" /\ ids # <<>> =>
          result = Some(Cardinality(MovedToTrash))

C10_Witness ==
    /\ ~dry_run
    /\ pc = "done"
    /\ Len(ids) = 2
    /\ result = Some(1)
    /\ TrashCalls[1].res = "other" \/ TrashCalls[1].res = "transient"

=============================================================================
